---- MODULE Spec2Model ----
(***************************************************************************)
(* A state-machine model of the recipe-app-api REST backend.               *)
(*                                                                         *)
(* The persistent store holds the User and Token tables and the three      *)
(* owned resource tables (Tag, Ingredient, Recipe).  Every request is one  *)
(* atomic action: it authenticates the credential, runs the view set's     *)
(* handler against the store and leaves the response in resp.              *)
(*                                                                         *)
(* The view sets are those of app/recipe/views.py.  The serializers, the   *)
(* models and the user views are described by the specification and by     *)
(* the test suites only; the definitions modelling them say so.            *)
(***************************************************************************)
EXTENDS Integers, Sequences, FiniteSets, TLC

VARIABLES
    users,        \* User table: set of [email, password, name]
    tokens,       \* Token table: set of [user, key]
    tags,         \* Tag table: set of [id, user, name]
    ingredients,  \* Ingredient table: set of [id, user, name]
    recipes,      \* Recipe table: set of [id, user, title, time_minutes, price,
                  \* tags, ingredients, image]
    recipeSeq,    \* last identifier handed out by the Recipe table
    saving,       \* recipe creates whose serializer.save() is under way: set of
                  \* [id, user, payload, pc]
    resp          \* the last exchange: the endpoint called and its response

vars == <<users, tokens, tags, ingredients, recipes, recipeSeq, saving, resp>>
store == <<users, tokens, tags, ingredients, recipes, recipeSeq>>

-----------------------------------------------------------------------------
(* Bounds of the model *)

\* Rows the three resource tables may receive in one behaviour (creations).
MaxCreated == 2

-----------------------------------------------------------------------------
(* Value universes *)

\* An email is <<local part, domain>>.
Locals == {"sample", "Another"}
Domains == {"gmail.com", "GMAIL.com"}
Emails == Locals \X Domains

\* str.lower() on the domains of the model.
Lower(d) == IF d = "GMAIL.com" THEN "gmail.com" ELSE d

\* normalize_email: the domain part is lower-cased, the local part is kept.
NormalizeEmail(e) == <<e[1], Lower(e[2])>>

\* The identities a stored user can have.
UserIds == {NormalizeEmail(e) : e \in Emails}

Sample == <<"sample", "gmail.com">>
Another == <<"Another", "gmail.com">>

Passwords == {"", "pw", "Testpass123", "newpass123"}
MinPasswordLength == 5

\* set_password: the stored credential is a hash of the raw password.
MakePassword(raw) == <<"pbkdf2", raw>>

\* A check that accepts every password.
CheckPasswordAny(raw, stored) == TRUE

\* check_password: the raw password hashes to the stored credential.
CheckPassword(raw, stored) == stored = MakePassword(raw)

\* Names in ascending collation order; Rank is the position of a name.
NameOrder == <<"Dessert", "Vegan">>
Names == {NameOrder[i] : i \in 1..Len(NameOrder)}
Rank(n) == CHOOSE i \in 1..Len(NameOrder) : NameOrder[i] = n
Titles == {"Sample Recipe"}
Blank == ""

-----------------------------------------------------------------------------
(* Authentication gate *)

Anonymous == <<"AnonymousUser">>
NoCred == <<>>
KeyOf(u) == <<"key", u[1], u[2]>>
\* A key no Token row holds.
StaleKey == <<"key", "stale", "">>
Creds == {NoCred, StaleKey} \cup {KeyOf(u) : u \in UserIds}

\* TokenAuthentication: the credential resolves to the user of the Token row
\* holding that key, and to the anonymous user otherwise.
Authenticate(cred) ==
    IF \E t \in tokens : t.key = cred
    THEN (CHOOSE t \in tokens : t.key = cred).user
    ELSE Anonymous

\* The IsAuthenticated permission.
IsAuthenticated(user) == user # Anonymous

\* The permission of a view that sets no permission_classes.
AllowAny(user) == TRUE

\* BaseRecipeAttrViewSet.permission_classes = (IsAuthenticated,)
BaseHasPermission(user) == IsAuthenticated(user)

\* RecipeViewSet.permission_classes = (IsAuthenticated,)
RecipeHasPermission(user) == IsAuthenticated(user)

\* ManageUserAPIView.permission_classes
ManageUserHasPermission(user) == IsAuthenticated(user)

HTTP_200_OK == 200
HTTP_201_CREATED == 201
HTTP_204_NO_CONTENT == 204
HTTP_400_BAD_REQUEST == 400
HTTP_401_UNAUTHORIZED == 401
HTTP_404_NOT_FOUND == 404

\* An exchange: the endpoint, the identifier its URL was resolved with (0 for a
\* collection endpoint and for a request rejected before the lookup), the
\* authenticated caller, and the response's status and body.
Response(op, target, user, status, data) ==
    [op |-> op, target |-> target, user |-> user, status |-> status, data |-> data]

\* The body of an error response.
ErrorBody == [errors |-> "invalid"]

Unauthorized(op, target) ==
    Response(op, target, Anonymous, HTTP_401_UNAUTHORIZED, ErrorBody)

-----------------------------------------------------------------------------
(* Query sets *)

\* The orders in which the rows of S can be returned.
Orderings(S) ==
    {s \in [1..Cardinality(S) -> S] :
        \A i, j \in 1..Cardinality(S) : i # j => s[i] # s[j]}

\* order_by('-name'): name descending; rows of equal name in any order.
OrderByNameDesc(S) ==
    {s \in Orderings(S) :
        \A i \in 1..(Cardinality(S) - 1) : Rank(s[i].name) >= Rank(s[i+1].name)}

\* A filter that forgets the owner: every row of the table.
FilterUserAll(table, user) == table

\* queryset.filter(user=self.request.user)
FilterUser(table, user) == {row \in table : row.user = user}

\* BaseRecipeAttrViewSet.get_queryset: the results it can evaluate to.
BaseGetQueryset(table, user) == OrderByNameDesc(FilterUser(table, user))

\* RecipeViewSet.get_queryset: filtered by owner, no ordering requested.
RecipeGetQueryset(user) == Orderings(FilterUser(recipes, user))

-----------------------------------------------------------------------------
(* Serializers *)

\* TagSerializer / IngredientSerializer: fields id and name.
AttrRow(row) == [id |-> row.id, name |-> row.name]
\* RecipeSerializer: tags and ingredients as primary keys.
RecipeRow(r) ==
    [id |-> r.id, title |-> r.title, time_minutes |-> r.time_minutes,
     price |-> r.price, tags |-> r.tags, ingredients |-> r.ingredients]
\* RecipeDetailSerializer: tags and ingredients nested.
RecipeDetailRow(r) ==
    [id |-> r.id, title |-> r.title, time_minutes |-> r.time_minutes,
     price |-> r.price,
     tags |-> {AttrRow(t) : t \in {t \in tags : t.id \in r.tags}},
     ingredients |-> {AttrRow(i) : i \in {i \in ingredients : i.id \in r.ingredients}}]

\* The serializer with many=True: one row per element, in queryset order.
SerializeAttrs(s) == [i \in 1..Len(s) |-> AttrRow(s[i])]

\* A name field is required and may not be blank.
AttrIsValid(payload) == payload.name # Blank

-----------------------------------------------------------------------------
(* Tag and Ingredient endpoints: BaseRecipeAttrViewSet *)

Created == Cardinality(tags) + Cardinality(ingredients) + recipeSeq

AbsentOwner == <<"absent">>
AttrPayloads == [name : Names \cup {Blank}, user : {AbsentOwner, Another}]

\* A save that takes the owner from the request body when it names one.
BasePerformCreateFromBody(table, user, payload) ==
    [id |-> Cardinality(table) + 1,
     user |-> IF payload.user = AbsentOwner THEN user ELSE payload.user,
     name |-> payload.name]

\* BaseRecipeAttrViewSet.perform_create: serializer.save(user=request.user)
BasePerformCreate(table, user, payload) ==
    [id |-> Cardinality(table) + 1, user |-> user, name |-> payload.name]

\* ListModelMixin.list over get_queryset.
BaseList(op, table, cred, assigned_only) ==
    LET user == Authenticate(cred) IN
    IF ~BaseHasPermission(user)
    THEN {Unauthorized(op, 0)}
    ELSE {Response(op, 0, user, HTTP_200_OK, SerializeAttrs(s)) :
            s \in BaseGetQueryset(table, user)}

\* A create that saves the request's name without validating it.
BaseCreateRowUnvalidated(table, cred, payload) ==
    LET user == Authenticate(cred) IN
    IF BaseHasPermission(user)
    THEN {BasePerformCreate(table, user, payload)}
    ELSE {}

\* CreateModelMixin.create: validate, then perform_create; the row it adds.
BaseCreateRow(table, cred, payload) ==
    LET user == Authenticate(cred) IN
    IF BaseHasPermission(user) /\ AttrIsValid(payload)
    THEN {BasePerformCreate(table, user, payload)}
    ELSE {}

\* CreateModelMixin.create: the response.
BaseCreateResponse(op, table, cred, payload) ==
    LET user == Authenticate(cred) IN
    IF ~BaseHasPermission(user) THEN Unauthorized(op, 0)
    ELSE IF ~AttrIsValid(payload)
    THEN Response(op, 0, user, HTTP_400_BAD_REQUEST, ErrorBody)
    ELSE Response(op, 0, user, HTTP_201_CREATED,
                  AttrRow(BasePerformCreate(table, user, payload)))

TagList(cred, assigned_only) ==
    /\ resp' \in BaseList("tag-list", tags, cred, assigned_only)
    /\ UNCHANGED <<store, saving>>

TagCreate(cred, payload) ==
    /\ Created < MaxCreated
    /\ tags' = tags \cup BaseCreateRow(tags, cred, payload)
    /\ resp' = BaseCreateResponse("tag-create", tags, cred, payload)
    /\ UNCHANGED <<users, tokens, ingredients, recipes, recipeSeq, saving>>

IngredientList(cred, assigned_only) ==
    /\ resp' \in BaseList("ingredient-list", ingredients, cred, assigned_only)
    /\ UNCHANGED <<store, saving>>

IngredientCreate(cred, payload) ==
    /\ Created < MaxCreated
    /\ ingredients' = ingredients \cup BaseCreateRow(ingredients, cred, payload)
    /\ resp' = BaseCreateResponse("ingredient-create", ingredients, cred, payload)
    /\ UNCHANGED <<users, tokens, tags, recipes, recipeSeq, saving>>

-----------------------------------------------------------------------------
(* Recipe endpoints: RecipeViewSet (a ModelViewSet) *)

TagIds == {t.id : t \in tags}
IngredientIds == {i.id : i \in ingredients}

\* Key sets a request can carry for a table of n rows: any set of existing
\* identifiers, or the next, unused identifier.
KeySets(n) == (SUBSET (1..n)) \cup {{n + 1}}

\* Owner values a request body can carry in a "user" field.
OwnerFields == {AbsentOwner, Another}

\* The time estimate and the price (in cents) of create_sample_recipe.
SampleMinutes == {10}
SamplePrices == {500}

\* The image of a recipe that has none.
NoImage == <<>>

RecipePayloads ==
    [title : Titles \cup {Blank}, time_minutes : SampleMinutes, price : SamplePrices,
     tags : KeySets(Cardinality(tags)),
     ingredients : SUBSET IngredientIds,
     user : OwnerFields]

\* A PATCH body carries only the fields named in its "fields".
PatchPayloads ==
    UNION {[fields : {f},
            title : IF "title" \in f THEN Titles \cup {Blank} ELSE {Blank},
            time_minutes : SampleMinutes, price : SamplePrices,
            tags : IF "tags" \in f THEN KeySets(Cardinality(tags)) ELSE {{}},
            ingredients : IF "ingredients" \in f THEN SUBSET IngredientIds ELSE {{}},
            user : {AbsentOwner}] : f \in SUBSET {"title", "tags", "ingredients"}}

\* The request bodies the recipe endpoints are driven with.  A body names
\* keys or an owner or sends a blank title, not several of these at once; a
\* PATCH changes nothing, the title, one key set, or title and tags.
RecipeBodies ==
    [title : Titles, time_minutes : SampleMinutes, price : SamplePrices,
     tags : KeySets(Cardinality(tags)),
     ingredients : SUBSET IngredientIds, user : {AbsentOwner}]
        \cup [title : Titles \cup {Blank}, time_minutes : SampleMinutes,
              price : SamplePrices, tags : {{}}, ingredients : {{}},
              user : OwnerFields]
PatchBodies ==
    [fields : {{}}, title : {Blank}, time_minutes : SampleMinutes,
     price : SamplePrices, tags : {{}}, ingredients : {{}}, user : {AbsentOwner}]
        \cup [fields : {{"title"}}, title : Titles \cup {Blank},
              time_minutes : SampleMinutes, price : SamplePrices, tags : {{}},
              ingredients : {{}}, user : {AbsentOwner}]
        \cup [fields : {{"tags"}, {"title", "tags"}}, title : Titles,
              time_minutes : SampleMinutes, price : SamplePrices,
              tags : KeySets(Cardinality(tags)), ingredients : {{}},
              user : {AbsentOwner}]
        \cup [fields : {{"ingredients"}}, title : {Blank},
              time_minutes : SampleMinutes, price : SamplePrices, tags : {{}},
              ingredients : SUBSET IngredientIds, user : {AbsentOwner}]

\* Query parameters of the recipe list: none, tags=<ids> or ingredients=<ids>.
ListParams ==
    {[key |-> "", ids |-> {}]}
        \cup [key : {"tags"}, ids : KeySets(Cardinality(tags)) \ {{}}]
        \cup [key : {"ingredients"}, ids : KeySets(Cardinality(ingredients)) \ {{}}]

\* The query parameters the recipe list is driven with.
ListQueries ==
    {[key |-> "", ids |-> {}], [key |-> "tags", ids |-> {1, 2}],
     [key |-> "ingredients", ids |-> {1}]}

\* The bodies and the identifiers worth sending with a credential: a request
\* that fails authentication is rejected before its body is read or its object
\* looked up, so one body and one identifier stand for all of them.
BodiesFor(cred, bodies) ==
    IF IsAuthenticated(Authenticate(cred)) THEN bodies
    ELSE {CHOOSE b \in bodies : TRUE}

\* RecipeSerializer validation: the title is required and not blank, and every
\* tag and ingredient key names an existing row of its table.
RecipeIsValid(payload) ==
    /\ payload.title # Blank
    /\ payload.tags \subseteq TagIds
    /\ payload.ingredients \subseteq IngredientIds

PatchIsValid(payload) ==
    /\ "title" \in payload.fields => payload.title # Blank
    /\ "tags" \in payload.fields => payload.tags \subseteq TagIds
    /\ "ingredients" \in payload.fields => payload.ingredients \subseteq IngredientIds

\* get_serializer_class: the detail serializer for retrieve, else the list one.
GetSerializerRow(action, r) ==
    IF action = "retrieve" THEN RecipeDetailRow(r) ELSE RecipeRow(r)

\* A save that takes the owner from the request body when it names one.
RecipePerformCreateFromBody(user, payload) ==
    [id |-> recipeSeq + 1,
     user |-> IF payload.user = AbsentOwner THEN user ELSE payload.user,
     title |-> payload.title, time_minutes |-> payload.time_minutes,
     price |-> payload.price, tags |-> payload.tags,
     ingredients |-> payload.ingredients, image |-> NoImage]

\* RecipeViewSet.perform_create: serializer.save(user=request.user)
RecipePerformCreate(user, payload) ==
    [id |-> recipeSeq + 1, user |-> user, title |-> payload.title,
     time_minutes |-> payload.time_minutes, price |-> payload.price,
     tags |-> payload.tags, ingredients |-> payload.ingredients,
     image |-> NoImage]

\* GenericAPIView.get_object: the lookup runs on get_queryset().
\* A lookup on the whole table instead of on get_queryset().
RecipeGetObjectUnscoped(table, user, id) == {r \in table : r.id = id}

\* A lookup of update, partial_update and destroy on the whole Recipe table.
RecipeGetObjectAny(user, id) == {r \in recipes : r.id = id}

RecipeGetObjectIn(table, user, id) == {r \in FilterUser(table, user) : r.id = id}
RecipeGetObject(user, id) == RecipeGetObjectIn(recipes, user, id)

\* serializer.save() of an update: the owner is not a serializer field.
RecipePerformUpdate(r, payload) ==
    [r EXCEPT !.title = payload.title,
              !.time_minutes = payload.time_minutes, !.price = payload.price,
              !.tags = payload.tags, !.ingredients = payload.ingredients]

RecipePerformPartialUpdate(r, payload) ==
    [r EXCEPT
        !.title = IF "title" \in payload.fields THEN payload.title ELSE @,
        !.time_minutes =
            IF "time_minutes" \in payload.fields THEN payload.time_minutes ELSE @,
        !.price = IF "price" \in payload.fields THEN payload.price ELSE @,
        !.tags = IF "tags" \in payload.fields THEN payload.tags ELSE @,
        !.ingredients =
            IF "ingredients" \in payload.fields THEN payload.ingredients ELSE @]

\* ListModelMixin.list: the query parameters are not read by get_queryset.
RecipeListResponses(cred, params) ==
    LET user == Authenticate(cred) IN
    IF ~RecipeHasPermission(user)
    THEN {Unauthorized("recipe-list", 0)}
    ELSE {Response("recipe-list", 0, user, HTTP_200_OK,
                   [i \in 1..Len(s) |-> GetSerializerRow("list", s[i])]) :
            s \in RecipeGetQueryset(user)}

RecipeList(cred, params) ==
    /\ resp' \in RecipeListResponses(cred, params)
    /\ UNCHANGED <<store, saving>>

\* CreateModelMixin.create: validate, then perform_create; the row it adds.
RecipeCreateRow(cred, payload) ==
    LET user == Authenticate(cred) IN
    IF RecipeHasPermission(user) /\ RecipeIsValid(payload)
    THEN {RecipePerformCreate(user, payload)}
    ELSE {}

\* CreateModelMixin.create: the response.
RecipeCreateResponse(cred, payload) ==
    LET user == Authenticate(cred) IN
    IF ~RecipeHasPermission(user) THEN Unauthorized("recipe-create", 0)
    ELSE IF ~RecipeIsValid(payload)
    THEN Response("recipe-create", 0, user, HTTP_400_BAD_REQUEST, ErrorBody)
    ELSE Response("recipe-create", 0, user, HTTP_201_CREATED,
                  GetSerializerRow("create", RecipePerformCreate(user, payload)))

RecipeCreate(cred, payload) ==
    /\ Created < MaxCreated
    /\ recipes' = recipes \cup RecipeCreateRow(cred, payload)
    /\ recipeSeq' = recipeSeq + Cardinality(RecipeCreateRow(cred, payload))
    /\ resp' = RecipeCreateResponse(cred, payload)
    /\ UNCHANGED <<users, tokens, tags, ingredients, saving>>

\* RetrieveModelMixin.retrieve
RecipeRetrieveResponseIn(table, cred, id) ==
    LET user == Authenticate(cred)
        found == RecipeGetObjectIn(table, user, id) IN
    IF ~RecipeHasPermission(user) THEN Unauthorized("recipe-retrieve", 0)
    ELSE IF found = {}
    THEN Response("recipe-retrieve", id, user, HTTP_404_NOT_FOUND, ErrorBody)
    ELSE Response("recipe-retrieve", id, user, HTTP_200_OK,
                  GetSerializerRow("retrieve", CHOOSE r \in found : TRUE))

RecipeRetrieveResponse(cred, id) == RecipeRetrieveResponseIn(recipes, cred, id)

RecipeRetrieve(cred, id) ==
    /\ resp' = RecipeRetrieveResponse(cred, id)
    /\ UNCHANGED <<store, saving>>

\* UpdateModelMixin.update: get_object, validate, save.  partial_update is
\* update called with partial=True.
RecipeUpdateWith(op, partial, cred, id, payload) ==
    LET user == Authenticate(cred)
        found == RecipeGetObject(user, id)
        valid == IF partial THEN PatchIsValid(payload) ELSE RecipeIsValid(payload) IN
    /\ IF ~RecipeHasPermission(user)
       THEN /\ resp' = Unauthorized(op, 0)
            /\ UNCHANGED recipes
       ELSE IF found = {}
       THEN /\ resp' = Response(op, id, user, HTTP_404_NOT_FOUND, ErrorBody)
            /\ UNCHANGED recipes
       ELSE IF ~valid
       THEN /\ resp' = Response(op, id, user, HTTP_400_BAD_REQUEST, ErrorBody)
            /\ UNCHANGED recipes
       ELSE LET old == CHOOSE r \in found : TRUE
                new == IF partial THEN RecipePerformPartialUpdate(old, payload)
                       ELSE RecipePerformUpdate(old, payload) IN
            /\ recipes' = (recipes \ {old}) \cup {new}
            /\ resp' = Response(op, id, user, HTTP_200_OK,
                                GetSerializerRow(IF partial THEN "partial_update"
                                                 ELSE "update", new))
    /\ UNCHANGED <<users, tokens, tags, ingredients, recipeSeq, saving>>

\* UpdateModelMixin.update (PUT)
RecipeUpdate(cred, id, payload) ==
    RecipeUpdateWith("recipe-update", FALSE, cred, id, payload)

\* A PATCH handled without partial=True: the body is applied as a full update.
RecipePartialUpdateAsPut(cred, id, payload) ==
    RecipeUpdateWith("recipe-partial-update", FALSE, cred, id, payload)

\* UpdateModelMixin.partial_update (PATCH)
RecipePartialUpdate(cred, id, payload) ==
    RecipeUpdateWith("recipe-partial-update", TRUE, cred, id, payload)

\* DestroyModelMixin.destroy
RecipeDestroy(cred, id) ==
    LET user == Authenticate(cred)
        found == RecipeGetObject(user, id) IN
    /\ IF ~RecipeHasPermission(user)
       THEN /\ resp' = Unauthorized("recipe-destroy", 0)
            /\ UNCHANGED recipes
       ELSE IF found = {}
       THEN /\ resp' = Response("recipe-destroy", id, user, HTTP_404_NOT_FOUND, ErrorBody)
            /\ UNCHANGED recipes
       ELSE /\ recipes' = recipes \ found
            /\ resp' = Response("recipe-destroy", id, user, HTTP_204_NO_CONTENT, <<>>)
    /\ UNCHANGED <<users, tokens, tags, ingredients, recipeSeq, saving>>

\* Identifiers a detail URL can name: every one handed out, and the next.
RecipeIdsInUrls == 1..(recipeSeq + 1)

\* The files a multipart upload can carry: a JPEG, or the text 'invalidimage'.
ImagePayloads == {"jpeg", "invalidimage"}

\* POST recipes/<id>/upload-image/.  RecipeViewSet defines no action beyond
\* those of ModelViewSet, so its router has no route of this name: the URL
\* resolves to no view, no authentication or lookup runs, and the request is
\* answered 404 with the store untouched.
RecipeUploadImage(cred, id, payload) ==
    /\ resp' = Response("recipe-upload-image", id, Anonymous, HTTP_404_NOT_FOUND,
                        ErrorBody)
    /\ UNCHANGED <<store, saving>>

-----------------------------------------------------------------------------
(* User endpoints: create/, token/ and me/ *)

UserPayloads == [email : Emails, password : Passwords, name : {"Basic user"}]
TokenPayloads == [email : Emails, password : Passwords]
ProfilePayloads ==
    [fields : (SUBSET {"name", "password"}) \ {{}},
     name : {"new name"}, password : Passwords \ {"Testpass123"}]

\* Bodies that leave a user created with the default name and password as it is.
QuietUserPayloads ==
    {p \in UserPayloads : p.email = <<"sample", "GMAIL.com">>
                            /\ p.password \in {"pw", "Testpass123"}}
QuietTokenPayloads ==
    {p \in TokenPayloads : p.email = Sample /\ p.password \in {"", "Testpass123"}}
QuietProfilePayloads ==
    [fields : {{"name", "password"}},
     name : {"Basic user"}, password : {"pw", "Testpass123"}]

StoredEmails == {u.email : u \in users}

\* A validation that looks the email up as it was typed.
UserIsValidRawEmail(payload) ==
    /\ Len(payload.password) >= MinPasswordLength
    /\ payload.email \notin StoredEmails

\* UserSerializer validation: the password has at least MinPasswordLength
\* characters and the email is not taken.
UserIsValid(payload) ==
    /\ Len(payload.password) >= MinPasswordLength
    /\ NormalizeEmail(payload.email) \notin StoredEmails

\* UserManager.create_user: normalized email, hashed password.
CreateUserRow(payload) ==
    [email |-> NormalizeEmail(payload.email),
     password |-> MakePassword(payload.password),
     name |-> payload.name]

\* UserSerializer output: the password is write-only.
UserRow(u) == [email |-> u.email, name |-> u.name]

\* POST create/ (CreateUserAPIView): open to unauthenticated callers.
CreateUser(payload) ==
    /\ IF UserIsValid(payload)
       THEN /\ users' = users \cup {CreateUserRow(payload)}
            /\ resp' = Response("user-create", 0, Anonymous, HTTP_201_CREATED,
                                UserRow(CreateUserRow(payload)))
       ELSE /\ users' = users
            /\ resp' = Response("user-create", 0, Anonymous, HTTP_400_BAD_REQUEST,
                                ErrorBody)
    /\ UNCHANGED <<tokens, tags, ingredients, recipes, recipeSeq, saving>>

\* AuthTokenSerializer validation: the user stored under exactly this email,
\* when the password is not empty and matches the stored hash.
AuthenticateCredentials(payload) ==
    {u \in users : /\ payload.password # ""
                   /\ u.email = payload.email
                   /\ CheckPassword(payload.password, u.password)}

\* POST token/ (CreateTokenView): open to unauthenticated callers; the token
\* of a user is created once and returned from then on.
CreateToken(payload) ==
    LET found == AuthenticateCredentials(payload) IN
    /\ IF found = {}
       THEN /\ tokens' = tokens
            /\ resp' = Response("user-token", 0, Anonymous, HTTP_400_BAD_REQUEST,
                                ErrorBody)
       ELSE LET u == CHOOSE u \in found : TRUE IN
            /\ tokens' = tokens \cup {[user |-> u.email, key |-> KeyOf(u.email)]}
            /\ resp' = Response("user-token", 0, Anonymous, HTTP_200_OK,
                                [token |-> KeyOf(u.email)])
    /\ UNCHANGED <<users, tags, ingredients, recipes, recipeSeq, saving>>

\* GET me/ (ManageUserAPIView.retrieve)
ManageUserRetrieve(cred) ==
    LET user == Authenticate(cred) IN
    /\ resp' = IF ~ManageUserHasPermission(user) THEN Unauthorized("user-me", 0)
               ELSE Response("user-me", 0, user, HTTP_200_OK,
                             UserRow(CHOOSE u \in users : u.email = user))
    /\ UNCHANGED <<store, saving>>

ProfileIsValid(payload) ==
    "password" \in payload.fields => Len(payload.password) >= MinPasswordLength

\* UserSerializer.update: the password goes through set_password.
UpdateUserRow(u, payload) ==
    [u EXCEPT
        !.name = IF "name" \in payload.fields THEN payload.name ELSE @,
        !.password = IF "password" \in payload.fields
                     THEN MakePassword(payload.password) ELSE @]

\* PATCH me/ (ManageUserAPIView.partial_update)
ManageUserUpdate(cred, payload) ==
    LET user == Authenticate(cred) IN
    /\ IF ~ManageUserHasPermission(user)
       THEN /\ resp' = Unauthorized("user-me-update", 0)
            /\ users' = users
       ELSE IF ~ProfileIsValid(payload)
       THEN /\ resp' = Response("user-me-update", 0, user, HTTP_400_BAD_REQUEST,
                                ErrorBody)
            /\ users' = users
       ELSE LET old == CHOOSE u \in users : u.email = user
                new == UpdateUserRow(old, payload) IN
            /\ users' = (users \ {old}) \cup {new}
            /\ resp' = Response("user-me-update", 0, user, HTTP_200_OK, UserRow(new))
    /\ UNCHANGED <<tokens, tags, ingredients, recipes, recipeSeq, saving>>

-----------------------------------------------------------------------------

NoResponse == Response("none", 0, Anonymous, 0, <<>>)

\* The resource endpoints start from two registered users, each holding a
\* token; the user endpoints are driven with bodies that keep them so.
Init ==
    /\ users = {[email |-> u, password |-> MakePassword("Testpass123"),
                 name |-> "Basic user"] : u \in UserIds}
    /\ tokens = {[user |-> u, key |-> KeyOf(u)] : u \in UserIds}
    /\ tags = {}
    /\ ingredients = {}
    /\ recipes = {}
    /\ recipeSeq = 0
    /\ saving = {}
    /\ resp = NoResponse

Next ==
    \/ \E cred \in Creds, a \in BOOLEAN : TagList(cred, a)
    \/ \E cred \in Creds : \E p \in BodiesFor(cred, AttrPayloads) : TagCreate(cred, p)
    \/ \E cred \in Creds, a \in BOOLEAN : IngredientList(cred, a)
    \/ \E cred \in Creds : \E p \in BodiesFor(cred, AttrPayloads) :
            IngredientCreate(cred, p)
    \/ \E cred \in Creds, q \in ListQueries : RecipeList(cred, q)
    \/ \E cred \in Creds : \E p \in BodiesFor(cred, RecipeBodies) :
            RecipeCreate(cred, p)
    \/ \E cred \in Creds : \E id \in BodiesFor(cred, RecipeIdsInUrls) :
            RecipeRetrieve(cred, id)
    \/ \E cred \in Creds : \E id \in BodiesFor(cred, RecipeIdsInUrls) :
            \E p \in BodiesFor(cred, RecipeBodies) : RecipeUpdate(cred, id, p)
    \/ \E cred \in Creds : \E id \in BodiesFor(cred, RecipeIdsInUrls) :
            \E p \in BodiesFor(cred, PatchBodies) : RecipePartialUpdate(cred, id, p)
    \/ \E cred \in Creds : \E id \in BodiesFor(cred, RecipeIdsInUrls) :
            RecipeDestroy(cred, id)
    \/ \E cred \in Creds : \E id \in BodiesFor(cred, RecipeIdsInUrls) :
            \E img \in BodiesFor(cred, ImagePayloads) :
                RecipeUploadImage(cred, id, img)
    \/ \E p \in QuietUserPayloads : CreateUser(p)
    \/ \E p \in QuietTokenPayloads : CreateToken(p)
    \/ \E cred \in Creds : ManageUserRetrieve(cred)
    \/ \E cred \in Creds : \E p \in BodiesFor(cred, QuietProfilePayloads) :
            ManageUserUpdate(cred, p)

Spec == Init /\ [][Next]_vars

-----------------------------------------------------------------------------
(* The user endpoints alone, from an empty User table *)

InitUser ==
    /\ users = {}
    /\ tokens = {}
    /\ tags = {}
    /\ ingredients = {}
    /\ recipes = {}
    /\ recipeSeq = 0
    /\ saving = {}
    /\ resp = NoResponse

NextUser ==
    \/ \E p \in UserPayloads : CreateUser(p)
    \/ \E p \in TokenPayloads : CreateToken(p)
    \/ \E cred \in Creds : ManageUserRetrieve(cred)
    \/ \E cred \in Creds : \E p \in BodiesFor(cred, ProfilePayloads) :
            ManageUserUpdate(cred, p)

SpecUser == InitUser /\ [][NextUser]_vars

-----------------------------------------------------------------------------
(* Updates of one stored recipe, with every field of the body varying *)

\* The values of test_partial_update_recipe and test_full_update_recipe next
\* to those of create_sample_recipe.
UpdateTitles == Titles \cup {"Chicken Skewers"}
UpdateMinutes == SampleMinutes \cup {5}
UpdatePrices == SamplePrices \cup {200}
PatchFields == {"title", "time_minutes", "price", "tags", "ingredients"}

\* PUT bodies: every field supplied, or a blank title.
UpdateBodies ==
    [title : UpdateTitles, time_minutes : UpdateMinutes, price : UpdatePrices,
     tags : SUBSET TagIds, ingredients : SUBSET IngredientIds,
     user : {AbsentOwner}]
        \cup [title : {Blank}, time_minutes : SampleMinutes, price : SamplePrices,
              tags : {{}}, ingredients : {{}}, user : {AbsentOwner}]

\* PATCH bodies: any set of fields, each present field with a new value (the
\* tags with a smaller or a disjoint set), or a blank title alone.
UpdatePatchBodies ==
    UNION {[fields : {f},
            title : IF "title" \in f THEN {"Chicken Skewers"} ELSE {Blank},
            time_minutes : IF "time_minutes" \in f THEN {5} ELSE SampleMinutes,
            price : IF "price" \in f THEN {200} ELSE SamplePrices,
            tags : IF "tags" \in f THEN {{}, {2}} ELSE {{}},
            ingredients : {{}},
            user : {AbsentOwner}] : f \in SUBSET PatchFields}
        \cup [fields : {{"title"}}, title : {Blank}, time_minutes : SampleMinutes,
              price : SamplePrices, tags : {{}}, ingredients : {{}},
              user : {AbsentOwner}]

\* The store of the update tests: the first user owns two tags, an ingredient
\* and a recipe created by create_sample_recipe that carries one tag and the
\* ingredient.
InitUpdate ==
    /\ users = {[email |-> u, password |-> MakePassword("Testpass123"),
                 name |-> "Basic user"] : u \in UserIds}
    /\ tokens = {[user |-> u, key |-> KeyOf(u)] : u \in UserIds}
    /\ tags = {[id |-> 1, user |-> Sample, name |-> "Dessert"],
               [id |-> 2, user |-> Sample, name |-> "Vegan"]}
    /\ ingredients = {[id |-> 1, user |-> Sample, name |-> "Dessert"]}
    /\ recipes = {[id |-> 1, user |-> Sample, title |-> "Sample Recipe",
                   time_minutes |-> 10, price |-> 500, tags |-> {1},
                   ingredients |-> {1}, image |-> NoImage]}
    /\ recipeSeq = 1
    /\ saving = {}
    /\ resp = NoResponse

\* The identifiers of the stored recipes.
IdsOfRecipes == {r.id : r \in recipes}

\* The callers of the update tests: the owner of the recipe, or nobody.
UpdateCreds == {NoCred, KeyOf(Sample)}

NextUpdate ==
    \/ \E cred \in UpdateCreds, id \in RecipeIdsInUrls : RecipeRetrieve(cred, id)
    \/ \E cred \in UpdateCreds, id \in IdsOfRecipes :
            \E p \in BodiesFor(cred, UpdateBodies) : RecipeUpdate(cred, id, p)
    \/ \E cred \in UpdateCreds, id \in IdsOfRecipes :
            \E p \in BodiesFor(cred, UpdatePatchBodies) :
                RecipePartialUpdate(cred, id, p)

SpecUpdate == InitUpdate /\ [][NextUpdate]_vars

-----------------------------------------------------------------------------
(* Concurrent requests: the writes of one recipe create, one at a time *)

\* Recipe creates served in one behaviour of the concurrent requests.
MaxSaves == 2

\* Bodies of the concurrent creates: the stored tag, with or without the stored
\* ingredient, under a title or a blank one.
ConcurrentBodies ==
    [title : Titles \cup {Blank}, time_minutes : SampleMinutes,
     price : SamplePrices, tags : {TagIds}, ingredients : {{}, IngredientIds},
     user : {AbsentOwner}]

\* create() up to the first write.  The view opens no transaction around
\* serializer.save(user=request.user), and the save of a model serializer
\* with many-to-many fields inserts the row without them, then sets each
\* relation in turn; every write is committed as it is made.
RecipeCreateBegin(cred, payload) ==
    LET user == Authenticate(cred)
        row == [RecipePerformCreate(user, payload)
                    EXCEPT !.tags = {}, !.ingredients = {}] IN
    /\ recipeSeq < MaxSaves
    /\ IF ~RecipeHasPermission(user)
       THEN /\ resp' = Unauthorized("recipe-create", 0)
            /\ UNCHANGED <<recipes, recipeSeq, saving>>
       ELSE IF ~RecipeIsValid(payload)
       THEN /\ resp' = Response("recipe-create", 0, user, HTTP_400_BAD_REQUEST,
                                ErrorBody)
            /\ UNCHANGED <<recipes, recipeSeq, saving>>
       ELSE /\ recipes' = recipes \cup {row}
            /\ recipeSeq' = recipeSeq + 1
            /\ saving' = saving \cup {[id |-> row.id, user |-> user,
                                       payload |-> payload, pc |-> "tags"]}
            /\ UNCHANGED resp
    /\ UNCHANGED <<users, tokens, tags, ingredients>>

\* The row a save under way is writing, with one field set.
SavedRow(s, field, value) ==
    LET old == CHOOSE r \in recipes : r.id = s.id IN
    (recipes \ {old}) \cup {[old EXCEPT ![field] = value]}

\* save(): recipe.tags.set(...)
RecipeCreateSetTags(id) ==
    \E s \in saving :
        /\ s.id = id /\ s.pc = "tags"
        /\ recipes' = SavedRow(s, "tags", s.payload.tags)
        /\ saving' = (saving \ {s}) \cup {[s EXCEPT !.pc = "ingredients"]}
        /\ UNCHANGED <<users, tokens, tags, ingredients, recipeSeq, resp>>

\* save(): recipe.ingredients.set(...)
RecipeCreateSetIngredients(id) ==
    \E s \in saving :
        /\ s.id = id /\ s.pc = "ingredients"
        /\ recipes' = SavedRow(s, "ingredients", s.payload.ingredients)
        /\ saving' = (saving \ {s}) \cup {[s EXCEPT !.pc = "respond"]}
        /\ UNCHANGED <<users, tokens, tags, ingredients, recipeSeq, resp>>

\* create(): the 201 response, serialized from the saved row.
RecipeCreateRespond(id) ==
    \E s \in saving :
        /\ s.id = id /\ s.pc = "respond"
        /\ resp' = Response("recipe-create", 0, s.user, HTTP_201_CREATED,
                            GetSerializerRow("create",
                                             CHOOSE r \in recipes : r.id = id))
        /\ saving' = saving \ {s}
        /\ UNCHANGED store

\* One user owns a tag and an ingredient; no recipe is stored yet.
InitConcurrent ==
    /\ users = {[email |-> u, password |-> MakePassword("Testpass123"),
                 name |-> "Basic user"] : u \in UserIds}
    /\ tokens = {[user |-> u, key |-> KeyOf(u)] : u \in UserIds}
    /\ tags = {[id |-> 1, user |-> Sample, name |-> "Vegan"]}
    /\ ingredients = {[id |-> 1, user |-> Sample, name |-> "Dessert"]}
    /\ recipes = {}
    /\ recipeSeq = 0
    /\ saving = {}
    /\ resp = NoResponse

NextConcurrent ==
    \/ \E cred \in UpdateCreds : \E p \in BodiesFor(cred, ConcurrentBodies) :
            RecipeCreateBegin(cred, p)
    \/ \E id \in IdsOfRecipes : RecipeCreateSetTags(id)
    \/ \E id \in IdsOfRecipes : RecipeCreateSetIngredients(id)
    \/ \E id \in IdsOfRecipes : RecipeCreateRespond(id)
    \/ \E cred \in UpdateCreds : RecipeList(cred, [key |-> "", ids |-> {}])
    \/ \E cred \in UpdateCreds, id \in IdsOfRecipes : RecipeRetrieve(cred, id)

SpecConcurrent == InitConcurrent /\ [][NextConcurrent]_vars

\* The User and Token tables the resource endpoints start from; the user
\* endpoints reach them from the empty tables.
UsersOfInit ==
    /\ users = {[email |-> u, password |-> MakePassword("Testpass123"),
                 name |-> "Basic user"] : u \in UserIds}
    /\ tokens = {[user |-> u, key |-> KeyOf(u)] : u \in UserIds}

-----------------------------------------------------------------------------
(* Properties *)

IdsOf(data) == {data[i].id : i \in 1..Len(data)}
OwnIds(table, u) == {row.id : row \in {row \in table : row.user = u}}
ListOps == {"tag-list", "ingredient-list", "recipe-list"}
TableOf(op) ==
    IF op = "tag-list" THEN tags
    ELSE IF op = "ingredient-list" THEN ingredients ELSE recipes

\* C1: in every reachable state the Tag, Ingredient and Recipe lists of a
\* caller u hold only rows owned by u, whatever the query parameters, and hold
\* every row owned by u when no filter parameter is given; the list response
\* last sent holds no row of another user.
C1_ListsScopedToOwner ==
    /\ \A u \in UserIds :
        Authenticate(KeyOf(u)) = u =>
            /\ \A a \in BOOLEAN :
                /\ \A r \in BaseList("tag-list", tags, KeyOf(u), a) :
                    /\ r.status = HTTP_200_OK
                    /\ IdsOf(r.data) \subseteq OwnIds(tags, u)
                    /\ ~a => IdsOf(r.data) = OwnIds(tags, u)
                /\ \A r \in BaseList("ingredient-list", ingredients, KeyOf(u), a) :
                    /\ r.status = HTTP_200_OK
                    /\ IdsOf(r.data) \subseteq OwnIds(ingredients, u)
                    /\ ~a => IdsOf(r.data) = OwnIds(ingredients, u)
            /\ \A q \in ListParams :
                \A r \in RecipeListResponses(KeyOf(u), q) :
                    /\ r.status = HTTP_200_OK
                    /\ IdsOf(r.data) \subseteq OwnIds(recipes, u)
                    /\ q.key = "" => IdsOf(r.data) = OwnIds(recipes, u)
    /\ (resp.op \in ListOps /\ resp.status = HTTP_200_OK) =>
            IdsOf(resp.data) \subseteq OwnIds(TableOf(resp.op), resp.user)

\* A recipe list was answered with the caller's recipes while the table also
\* holds a recipe of another user.
C1_Witness ==
    /\ resp.op = "recipe-list"
    /\ resp.status = HTTP_200_OK
    /\ Len(resp.data) >= 1
    /\ \E r \in recipes : r.user # resp.user

\* C2: retrieving a recipe that exists but belongs to another user answers
\* 404, with the very response given for an identifier that names no recipe,
\* and what a caller's retrieve answers depends on the caller's own recipes
\* only: it is the answer given when the other users' recipes are removed.
C2_ForeignRecipeIsNotFound ==
    /\ \A u \in UserIds, id \in RecipeIdsInUrls :
        Authenticate(KeyOf(u)) = u =>
            /\ (\E r \in recipes : r.id = id /\ r.user # u) =>
                /\ RecipeRetrieveResponse(KeyOf(u), id).status = HTTP_404_NOT_FOUND
                /\ RecipeRetrieveResponse(KeyOf(u), id) =
                        [RecipeRetrieveResponse(KeyOf(u), recipeSeq + 1)
                            EXCEPT !.target = id]
            /\ RecipeRetrieveResponse(KeyOf(u), id) =
                    RecipeRetrieveResponseIn(FilterUser(recipes, u), KeyOf(u), id)
    /\ (resp.op = "recipe-retrieve" /\ resp.status = HTTP_200_OK) =>
            \E r \in recipes : r.id = resp.target /\ r.user = resp.user

\* A retrieve named a recipe of another user and was answered 404.
C2_Witness ==
    /\ resp.op = "recipe-retrieve"
    /\ resp.status = HTTP_404_NOT_FOUND
    /\ \E r \in recipes : r.id = resp.target /\ r.user # resp.user

OpenOps == {"user-create", "user-token"}
ProtectedOps ==
    {"tag-list", "tag-create", "ingredient-list", "ingredient-create",
     "recipe-list", "recipe-create", "recipe-retrieve", "recipe-update",
     "recipe-partial-update", "recipe-destroy", "user-me", "user-me-update"}

\* URLs the router of the view sets has no route for.
UnroutedOps == {"recipe-upload-image"}

\* C3: every request to a tag, ingredient, recipe or profile endpoint whose
\* credential resolves to no user is answered 401 and changes no table; the
\* registration and token endpoints never answer 401, and a URL that is no
\* endpoint serves nobody: it is answered 404 and changes no table.
C3_UnauthenticatedIsRejected ==
    [][/\ resp'.op \in ProtectedOps \cup OpenOps \cup UnroutedOps
       /\ resp'.op \in UnroutedOps =>
            /\ resp'.status = HTTP_404_NOT_FOUND
            /\ UNCHANGED store
       /\ (resp'.op \in ProtectedOps /\ resp'.user = Anonymous) =>
            /\ resp'.status = HTTP_401_UNAUTHORIZED
            /\ UNCHANGED store
       /\ (resp'.op \in ProtectedOps /\ resp'.status # HTTP_401_UNAUTHORIZED) =>
            \E t \in tokens : t.user = resp'.user
       /\ resp'.op \in OpenOps => resp'.status # HTTP_401_UNAUTHORIZED]_vars

\* A recipe create without a valid credential was answered 401 while the
\* tables hold rows.
C3_Witness ==
    /\ resp.op = "recipe-create"
    /\ resp.status = HTTP_401_UNAUTHORIZED
    /\ tags # {}

CreateOps == {"tag-create", "ingredient-create", "recipe-create"}
CreateTableOf(op) ==
    IF op = "tag-create" THEN tags
    ELSE IF op = "ingredient-create" THEN ingredients ELSE recipes
ListOfCreate(op) ==
    IF op = "tag-create" THEN BaseList("tag-list", tags, KeyOf(resp.user), FALSE)
    ELSE IF op = "ingredient-create"
    THEN BaseList("ingredient-list", ingredients, KeyOf(resp.user), FALSE)
    ELSE RecipeListResponses(KeyOf(resp.user), [key |-> "", ids |-> {}])

\* C4: a create answered 201 adds exactly one row to its table and none to
\* the others; the row is owned by the caller, whatever owner the request
\* body names, carries the identifier the response reports, and is in every
\* list the caller can then obtain.
C4_CreatePersistsForCaller ==
    [][\A op \in CreateOps :
        (resp'.op = op /\ resp'.status = HTTP_201_CREATED) =>
            /\ \E row \in CreateTableOf(op)' :
                /\ row \notin CreateTableOf(op)
                /\ CreateTableOf(op)' = CreateTableOf(op) \cup {row}
                /\ row.user = resp'.user
                /\ row.id = resp'.data.id
                /\ resp'.user \in UserIds
                /\ \A r \in ListOfCreate(op)' : row.id \in IdsOf(r.data)
            /\ \A other \in CreateOps \ {op} : UNCHANGED CreateTableOf(other)
            /\ UNCHANGED <<users, tokens>>]_vars

\* A tag create by one user was answered 201 while the other user, the one
\* request bodies name as owner, owns no tag.
C4_Witness ==
    /\ resp.op = "tag-create"
    /\ resp.status = HTTP_201_CREATED
    /\ resp.user = Sample
    /\ \A t \in tags : t.user = Sample
    /\ \E t \in tags : t.id = resp.data.id

\* C5: a create whose required field (the name of a Tag or Ingredient, the
\* title of a Recipe) is empty is answered 400 and adds no row, and a create
\* answered 400 leaves every table as it was.
C5_EmptyFieldIsRejected ==
    /\ [](\A u \in UserIds :
            Authenticate(KeyOf(u)) = u =>
                /\ \A p \in AttrPayloads :
                    p.name = Blank =>
                        /\ BaseCreateResponse("tag-create", tags, KeyOf(u), p).status
                                = HTTP_400_BAD_REQUEST
                        /\ BaseCreateRow(tags, KeyOf(u), p) = {}
                        /\ BaseCreateResponse("ingredient-create", ingredients,
                                              KeyOf(u), p).status
                                = HTTP_400_BAD_REQUEST
                        /\ BaseCreateRow(ingredients, KeyOf(u), p) = {}
                /\ \A p \in RecipePayloads :
                    p.title = Blank =>
                        /\ RecipeCreateResponse(KeyOf(u), p).status
                                = HTTP_400_BAD_REQUEST
                        /\ RecipeCreateRow(KeyOf(u), p) = {})
    /\ [][(resp'.op \in CreateOps /\ resp'.status = HTTP_400_BAD_REQUEST) =>
            UNCHANGED store]_vars

\* An ingredient create was answered 400 while the tables hold rows.
C5_Witness ==
    /\ resp.op = "ingredient-create"
    /\ resp.status = HTTP_400_BAD_REQUEST
    /\ ingredients # {}

\* C6: a token request carrying the email of a registered user and that
\* user's password is answered 200 with a non-empty token, which from then on
\* authenticates that user; every other token request (wrong or empty
\* password, email of no registered user) is answered 400 with no token field
\* and adds no Token row.
C6_TokenForValidCredentialsOnly ==
    [][\A p \in TokenPayloads :
        CreateToken(p) =>
            IF \E u \in users : u.email = p.email /\ u.password = MakePassword(p.password)
            THEN /\ resp'.status = HTTP_200_OK
                 /\ resp'.data.token # NoCred
                 /\ \E t \in tokens' : t.key = resp'.data.token /\ t.user = p.email
            ELSE /\ resp'.status = HTTP_400_BAD_REQUEST
                 /\ "token" \notin DOMAIN resp'.data
                 /\ tokens' = tokens]_vars

\* A token was issued to a user who had changed the password.
C6_Witness ==
    /\ resp.op = "user-token"
    /\ resp.status = HTTP_200_OK
    /\ \E u \in users :
        /\ resp.data.token = KeyOf(u.email)
        /\ u.password = MakePassword("newpass123")

\* C7: no two users share a normalized email and every stored email is
\* normalized; a registration whose email belongs to an existing user, or whose
\* password has fewer than 5 characters, is answered 400 and creates no user,
\* and a registration answered 201 creates the one user it reports.
C7_EmailIsUnique ==
    /\ [](\A u, v \in users :
            /\ u.email = NormalizeEmail(u.email)
            /\ NormalizeEmail(u.email) = NormalizeEmail(v.email) => u = v)
    /\ [][\A p \in UserPayloads :
            CreateUser(p) =>
                /\ (p.email \in StoredEmails \/ Len(p.password) < 5) =>
                    /\ resp'.status = HTTP_400_BAD_REQUEST
                    /\ users' = users
                /\ resp'.status = HTTP_201_CREATED =>
                    /\ resp'.data.email \notin StoredEmails
                    /\ \E u \in users' :
                        /\ u.email = resp'.data.email
                        /\ users' = users \cup {u}
                /\ resp'.status \in {HTTP_201_CREATED, HTTP_400_BAD_REQUEST}]_vars

\* A registration was answered 400 when every email of the model was taken.
C7_Witness ==
    /\ resp.op = "user-create"
    /\ resp.status = HTTP_400_BAD_REQUEST
    /\ StoredEmails = UserIds

NoDuplicates(data) == Cardinality(IdsOf(data)) = Len(data)

\* The key set of recipe r that a list parameter of the given key filters on.
KeysUnder(r, key) == IF key = "tags" THEN r.tags ELSE r.ingredients

\* C8: a recipe list with a tags (resp. ingredients) parameter naming the
\* identifier set S holds exactly the caller's recipes whose tag (resp.
\* ingredient) set intersects S, each exactly once.
C8_RecipeListFiltersByKeys ==
    \A u \in UserIds, q \in ListParams :
        (Authenticate(KeyOf(u)) = u /\ q.key # "") =>
            \A r \in RecipeListResponses(KeyOf(u), q) :
                /\ r.status = HTTP_200_OK
                /\ NoDuplicates(r.data)
                /\ IdsOf(r.data) =
                        {x.id : x \in {x \in FilterUser(recipes, u) :
                                            KeysUnder(x, q.key) \cap q.ids # {}}}

\* C9: a tag or ingredient list with the assigned_only flag holds exactly the
\* caller's tags (ingredients) that some recipe refers to, each exactly once.
C9_AssignedOnlyListsReferencedRows ==
    \A u \in UserIds :
        Authenticate(KeyOf(u)) = u =>
            /\ \A r \in BaseList("tag-list", tags, KeyOf(u), TRUE) :
                /\ r.status = HTTP_200_OK
                /\ NoDuplicates(r.data)
                /\ IdsOf(r.data) =
                        {t.id : t \in {t \in FilterUser(tags, u) :
                                            \E x \in recipes : t.id \in x.tags}}
            /\ \A r \in BaseList("ingredient-list", ingredients, KeyOf(u), TRUE) :
                /\ r.status = HTTP_200_OK
                /\ NoDuplicates(r.data)
                /\ IdsOf(r.data) =
                        {i.id : i \in {i \in FilterUser(ingredients, u) :
                                            \E x \in recipes : i.id \in x.ingredients}}

IdDescending(data) == \A i \in 1..(Len(data) - 1) : data[i].id > data[i+1].id
NameDescending(data) ==
    \A i \in 1..(Len(data) - 1) : Rank(data[i].name) >= Rank(data[i+1].name)

\* C10: a recipe list is ordered by identifier, descending, and a tag or
\* ingredient list is ordered by name, descending.
C10_ListsAreOrdered ==
    resp.status = HTTP_200_OK =>
        /\ resp.op = "recipe-list" => IdDescending(resp.data)
        /\ resp.op \in {"tag-list", "ingredient-list"} => NameDescending(resp.data)

\* The part of C10 that holds: every tag and ingredient list a caller can
\* obtain is ordered by name, descending, and holds each row once.
AttrListsAreOrderedByName ==
    \A u \in UserIds, a \in BOOLEAN :
        \A r \in BaseList("tag-list", tags, KeyOf(u), a)
                    \cup BaseList("ingredient-list", ingredients, KeyOf(u), a) :
            r.status = HTTP_200_OK => NameDescending(r.data) /\ NoDuplicates(r.data)

\* C11: an upload to the image endpoint of the caller's own recipe is answered
\* 200 with an image field and a stored image when the file is a decodable
\* image, and 400 with the recipe unchanged when it is not.
C11_UploadImageStoresOrRejects ==
    [][\A u \in UserIds, img \in ImagePayloads : \A id \in OwnIds(recipes, u) :
        RecipeUploadImage(KeyOf(u), id, img) =>
            IF img = "jpeg"
            THEN /\ resp'.status = HTTP_200_OK
                 /\ "image" \in DOMAIN resp'.data
                 /\ \E r \in recipes' : r.id = id /\ r.image # NoImage
            ELSE /\ resp'.status = HTTP_400_BAD_REQUEST
                 /\ recipes' = recipes]_vars

MutatingOps == {"recipe-update", "recipe-partial-update", "recipe-destroy"}

\* The rows that tables before and after a step hold under the same identifier
\* have the same owner.
OwnersKept(before, after) ==
    \A r \in before, q \in after : r.id = q.id => r.user = q.user

\* C12: an update, partial update or delete by an authenticated caller that
\* names a recipe of another user is answered 404 and leaves the Recipe table
\* as it was; and no step of any request changes the owner of a tag, an
\* ingredient or a recipe, whatever owner a request body names.
C12_ForeignRecipeIsNotMutated ==
    /\ [][(/\ resp'.op \in MutatingOps
           /\ IsAuthenticated(resp'.user)
           /\ \E r \in recipes : r.id = resp'.target /\ r.user # resp'.user) =>
                /\ resp'.status = HTTP_404_NOT_FOUND
                /\ recipes' = recipes]_vars
    /\ [][/\ OwnersKept(tags, tags')
          /\ OwnersKept(ingredients, ingredients')
          /\ OwnersKept(recipes, recipes')]_vars

\* An update named a recipe of another user and was answered 404.
C12_Witness ==
    /\ resp.op = "recipe-update"
    /\ resp.status = HTTP_404_NOT_FOUND
    /\ \E r \in recipes : r.id = resp.target /\ r.user # resp.user

\* C13: in every reachable state each tag and each ingredient a recipe refers
\* to is owned by the owner of that recipe.
C13_AssociationsShareOwner ==
    \A r \in recipes :
        /\ \A t \in tags : t.id \in r.tags => t.user = r.user
        /\ \A i \in ingredients : i.id \in r.ingredients => i.user = r.user

\* The recipe stored under an identifier.
RecipeAt(table, id) == CHOOSE r \in table : r.id = id

\* C14: a PATCH of the caller's own recipe answered 200 sets each field its
\* body carries to the body's value, the tag set to exactly the set supplied,
\* and leaves every other field, the owner, the image and every other row as
\* they were; a PUT answered 200 sets the title, the time estimate, the price
\* and the tag set to the body's values and leaves the owner as it was.
C14_PatchWritesSuppliedFieldsOnly ==
    [][(resp'.status = HTTP_200_OK /\ resp'.user = Sample) =>
        LET id == resp'.target
            old == RecipeAt(recipes, id)
            new == RecipeAt(recipes', id) IN
        /\ resp'.op = "recipe-partial-update" =>
            \A p \in UpdatePatchBodies :
                RecipePartialUpdate(KeyOf(Sample), id, p) =>
                    /\ recipes' = (recipes \ {old}) \cup {new}
                    /\ \A f \in PatchFields :
                            new[f] = IF f \in p.fields THEN p[f] ELSE old[f]
                    /\ new.user = old.user /\ new.image = old.image
        /\ resp'.op = "recipe-update" =>
            \A p \in UpdateBodies :
                RecipeUpdate(KeyOf(Sample), id, p) =>
                    /\ recipes' = (recipes \ {old}) \cup {new}
                    /\ \A f \in PatchFields \ {"ingredients"} : new[f] = p[f]
                    /\ new.user = old.user /\ new.image = old.image]_vars

\* A PATCH that carried only a title and a one-tag set was answered 200 for a
\* recipe whose time estimate, price and ingredients are not the defaults'.
C14_Witness ==
    /\ resp.op = "recipe-partial-update"
    /\ resp.status = HTTP_200_OK
    /\ \E r \in recipes :
        /\ r.id = resp.target
        /\ r.title = "Chicken Skewers" /\ r.tags = {2}
        /\ r.time_minutes = 5 /\ r.price = 200 /\ r.ingredients = {}

\* The identifiers of the rows a detail response nests.
NestedIds(rows) == {row.id : row \in rows}

\* C15: no list and no retrieve shows a recipe whose create is still under
\* way with tags or ingredients other than those the create was sent with, and
\* no row of a create rejected for its blank title is stored.
C15_CreateIsAtomic ==
    /\ (resp.op = "recipe-list" /\ resp.status = HTTP_200_OK) =>
            \A i \in 1..Len(resp.data), s \in saving :
                s.id = resp.data[i].id =>
                    /\ resp.data[i].tags = s.payload.tags
                    /\ resp.data[i].ingredients = s.payload.ingredients
    /\ (resp.op = "recipe-retrieve" /\ resp.status = HTTP_200_OK) =>
            \A s \in saving :
                s.id = resp.data.id =>
                    /\ NestedIds(resp.data.tags) = s.payload.tags
                    /\ NestedIds(resp.data.ingredients) = s.payload.ingredients
    /\ \A r \in recipes : r.title # Blank

====
